---- MODULE Spec2Model ----
(***************************************************************************)
(* Model of clannad's scanner (src/src/filter.rs): the three filters       *)
(* BasicFilter, SymlinkFilter and SymlinkFollowFilter walking a small      *)
(* POSIX-like filesystem, with std::path::Path queries modelled by what    *)
(* the operating system does (lstat / stat / readlink / readdir).          *)
(*                                                                         *)
(* A path string is a sequence of components; an absolute path starts      *)
(* with the component "/".  A node path (the identity of a filesystem      *)
(* node) is the sequence of names from the filesystem root, without "/".   *)
(***************************************************************************)
EXTENDS Integers, Sequences, FiniteSets, TLC

VARIABLES
    fs,       \* the filesystem: node path -> [kind, target]
    cwd,      \* node path of the process's working directory
    ioerr,    \* node paths whose directory entry cannot be read (readdir Err)
    policy,   \* which filter struct: "Basic" | "Preserving" | "Follow"
    root,     \* Filter.root (path string)
    files,    \* Filter.files : Option<Vec<FileInfo>>
    queue,    \* list_files' local VecDeque
    results,  \* list_files' local Vec
    pc,       \* "idle" | "loop" | "done" | "panic" | "hang"
    writer,   \* ZipDeflate.writer: the entries of the container, in order
    wlog,     \* errors write_archive has printed: <<entry index, operation>>
    wi,       \* index of the next manifest entry write_archive handles
    wpc       \* "idle" | "writing" | "finished" | "panic"

wvars == <<writer, wlog, wi, wpc>>
vars == <<fs, cwd, ioerr, policy, root, files, queue, results, pc, wvars>>

-----------------------------------------------------------------------------
(* Bounds *)

\* most symlink nodes in a generated filesystem
MaxLinks == 2
\* symlinks the kernel expands in one path resolution before ELOOP
MaxSymlinkHops == 3
\* cap on the length of list_files' results vector
MaxEntries == 14

-----------------------------------------------------------------------------
(* Option<T> and FileInfo *)

None == [some |-> FALSE, v |-> <<>>]
Some(x) == [some |-> TRUE, v |-> x]

FileTypes == {"REGULAR", "DIRECTORY", "SYMLINK", "NONE"}

FileInfo(path, content_path, file_type, symlink_path) ==
    [path |-> path, content_path |-> content_path,
     symlink_path |-> symlink_path, file_type |-> file_type]

-----------------------------------------------------------------------------
(* The filesystem *)

NoNode == <<"!">>

Policies == {"Basic", "Preserving", "Follow"}

\* node paths a generated filesystem may populate
NodePaths == { <<>>, <<"r">>, <<"r", "a">>, <<"r", "s">>, <<"r", "s", "b">>,
               <<"r", "l">>, <<"n">>, <<"s">> }

\* what a symlink may contain: relative and absolute targets
LinkTargets == { <<"s">>, <<"a">>, <<"l">>, <<"r">>,
                 <<"/", "r">>, <<"/", "r", "s">> }

\* the order in which readdir returns names
DirOrder == <<"a", "s", "l", "b", "n", "r">>

\* root paths handed to Filter::update, and those handed to Filter::new
Roots == { <<"r">>, <<"/", "r">>, <<"r", "s">>, <<"r", "l">>, <<"n">>, <<"s">> }
NewRoots == { <<"n">>, <<"s">> }

Absent == [kind |-> "none", target |-> <<>>]
Dir    == [kind |-> "dir",  target |-> <<>>]
File   == [kind |-> "file", target |-> <<>>]
Link(t) == [kind |-> "link", target |-> t]

Links == { Link(t) : t \in LinkTargets }

MkFs(a, s, b, l, n, t) ==
    [p \in NodePaths |->
        CASE p = <<>>              -> Dir
          [] p = <<"r">>           -> Dir
          [] p = <<"r", "a">>      -> a
          [] p = <<"r", "s">>      -> s
          [] p = <<"r", "s", "b">> -> b
          [] p = <<"r", "l">>      -> l
          [] p = <<"n">>           -> n
          [] p = <<"s">>           -> t]

NumLinks(F) == Cardinality({p \in NodePaths : F[p].kind = "link"})

\* well-formed trees: a node's parent is a directory
FsFamily(maxLinks) ==
    { F \in { MkFs(a, s, b, l, n, t) :
                a \in {Absent, File},
                s \in {Absent, Dir} \cup Links,
                b \in {Absent, File} \cup Links,
                l \in {Absent} \cup Links,
                n \in {Absent} \cup Links,
                t \in {Absent} \cup Links } :
        /\ (F[<<"r", "s", "b">>].kind # "none" => F[<<"r", "s">>].kind = "dir")
        /\ NumLinks(F) <= maxLinks }

Exists(np) == np \in NodePaths /\ fs[np].kind # "none"

IsAbsolute(p) == p # <<>> /\ Head(p) = "/"

\* path_resolution(7): walk the components from a directory, expanding
\* symlinks (all but the last component unless followLast)
RECURSIVE Walk(_, _, _, _)
Walk(cur, rest, fuel, followLast) ==
    IF rest = <<>> THEN cur
    ELSE IF fs[cur].kind # "dir" THEN NoNode
    ELSE LET np == Append(cur, Head(rest)) IN
         IF ~Exists(np) THEN NoNode
         ELSE IF fs[np].kind = "link" /\ (Len(rest) > 1 \/ followLast)
              THEN IF fuel = 0 THEN NoNode
                   ELSE LET t == fs[np].target IN
                        IF IsAbsolute(t)
                        THEN Walk(<<>>, Tail(t) \o Tail(rest), fuel - 1, followLast)
                        ELSE Walk(cur, t \o Tail(rest), fuel - 1, followLast)
              ELSE Walk(np, Tail(rest), fuel, followLast)

Resolve(p, followLast) ==
    IF p = <<>> THEN NoNode
    ELSE IF IsAbsolute(p) THEN Walk(<<>>, Tail(p), MaxSymlinkHops, followLast)
    ELSE Walk(cwd, p, MaxSymlinkHops, followLast)

Lstat(p) == Resolve(p, FALSE)
Stat(p)  == Resolve(p, TRUE)

\* std::path::Path queries
is_symlink(p) == Lstat(p) # NoNode /\ fs[Lstat(p)].kind = "link"
try_exists(p) == Stat(p) # NoNode
is_dir(p)     == Stat(p) # NoNode /\ fs[Stat(p)].kind = "dir"
is_file(p)    == Stat(p) # NoNode /\ fs[Stat(p)].kind = "file"
read_link(p)  == fs[Lstat(p)].target

parent(p) == SubSeq(p, 1, Len(p) - 1)
join(p, q) == IF IsAbsolute(q) THEN q ELSE p \o q

ChildNames(d) == SelectSeq(DirOrder, LAMBDA nm : Exists(Append(d, nm)))

\* Path::read_dir: Err unless the path resolves to a directory; each entry
\* is Ok(path joined with the name) or Err
read_dir(p) ==
    IF ~is_dir(p) THEN [ok |-> FALSE, ents |-> <<>>]
    ELSE LET d == Stat(p)
             nms == ChildNames(d) IN
         [ok |-> TRUE,
          ents |-> [i \in 1..Len(nms) |->
                      [ok |-> Append(d, nms[i]) \notin ioerr,
                       path |-> Append(p, nms[i])]]]

AllOk(ents) == \A i \in 1..Len(ents) : ents[i].ok
OkEnts(ents) == SelectSeq(ents, LAMBDA e : e.ok)
Paths(ents) == [i \in 1..Len(ents) |-> ents[i].path]

-----------------------------------------------------------------------------
(* One iteration of a list_files loop yields: the FileInfo pushed, the    *)
(* paths enqueued, and whether the iteration panicked or never returned.  *)

Iter(info, next, panic, hang) ==
    [info |-> info, next |-> next, panic |-> panic, hang |-> hang]

\* early return of list_files: ret = TRUE returns val, FALSE enters the loop
Early(ret, val) == [ret |-> ret, val |-> val]

(* BasicFilter *)

\* slip: the existence check of the root is left out
BasicRoot_NoExistenceCheck(r) ==
    IF is_symlink(r) THEN Early(TRUE, Some(<<FileInfo(r, r, "REGULAR", None)>>))
    ELSE Early(FALSE, None)

BasicFileInfo(p) ==
    FileInfo(p, p, IF is_dir(p) THEN "DIRECTORY" ELSE "REGULAR", None)

\* slip: a symlink root is classified like any other node
BasicRoot_SymlinkClassified(r) ==
    IF is_symlink(r) THEN Early(TRUE, Some(<<BasicFileInfo(r)>>))
    ELSE IF ~try_exists(r) THEN Early(TRUE, None)
    ELSE Early(FALSE, None)

BasicRoot(r) ==
    IF is_symlink(r) THEN Early(TRUE, Some(<<FileInfo(r, r, "REGULAR", None)>>))
    ELSE IF ~try_exists(r) THEN Early(TRUE, None)
    ELSE Early(FALSE, None)

BasicIter(p) ==
    LET info == BasicFileInfo(p)
        rd == read_dir(p) IN
    IF is_file(p) THEN Iter(info, <<>>, FALSE, FALSE)
    ELSE IF ~rd.ok \/ ~AllOk(rd.ents) THEN Iter(info, <<>>, TRUE, FALSE)
    ELSE Iter(info, Paths(rd.ents), FALSE, FALSE)

(* SymlinkFilter *)

\* slip: the link's content is not recorded in the FileInfo
SymlinkQueryFileinfo_NoTarget(p) ==
    IF is_symlink(p)
    THEN LET points_to == read_link(p) IN
         FileInfo(p, p,
                  IF ~try_exists(points_to) THEN "NONE"
                  ELSE IF is_symlink(points_to) THEN "SYMLINK"
                  ELSE IF is_dir(points_to) THEN "DIRECTORY"
                  ELSE "REGULAR",
                  None)
    ELSE FileInfo(p, p, IF is_dir(p) THEN "DIRECTORY" ELSE "REGULAR", None)

SymlinkQueryFileinfo(p) ==
    IF is_symlink(p)
    THEN LET points_to == read_link(p) IN
         FileInfo(p, p,
                  IF ~try_exists(points_to) THEN "NONE"
                  ELSE IF is_symlink(points_to) THEN "SYMLINK"
                  ELSE IF is_dir(points_to) THEN "DIRECTORY"
                  ELSE "REGULAR",
                  Some(points_to))
    ELSE FileInfo(p, p, IF is_dir(p) THEN "DIRECTORY" ELSE "REGULAR", None)

\* slip: a symlink is not recognised as a leaf
SymlinkQueryNextBatch_LinkNotLeaf(p) ==
    IF is_file(p) THEN [panic |-> FALSE, batch |-> None]
    ELSE LET rd == read_dir(p) IN
         IF ~rd.ok THEN [panic |-> TRUE, batch |-> None]
         ELSE [panic |-> FALSE, batch |-> Some(Paths(OkEnts(rd.ents)))]

\* Option<Vec<String>>, with panic for read_dir().expect
SymlinkQueryNextBatch(p) ==
    IF is_symlink(p) THEN [panic |-> FALSE, batch |-> None]
    ELSE IF is_file(p) THEN [panic |-> FALSE, batch |-> None]
    ELSE LET rd == read_dir(p) IN
         IF ~rd.ok THEN [panic |-> TRUE, batch |-> None]
         ELSE [panic |-> FALSE, batch |-> Some(Paths(OkEnts(rd.ents)))]

SymlinkRoot(r) ==
    IF is_symlink(r) THEN Early(TRUE, Some(<<SymlinkQueryFileinfo(r)>>))
    ELSE IF ~try_exists(r) THEN Early(TRUE, None)
    ELSE Early(FALSE, None)

SymlinkIter(p) ==
    LET nb == SymlinkQueryNextBatch(p) IN
    Iter(SymlinkQueryFileinfo(p),
         IF nb.batch.some THEN nb.batch.v ELSE <<>>,
         nb.panic, FALSE)

(* SymlinkFollowFilter *)

\* the while loop of follow_link re-reads the link until the path is no
\* symlink; a chain longer than the number of distinct link contents has
\* revisited one of them and never ends
ChaseFuel == Cardinality(LinkTargets) + 1

RECURSIVE Chase(_, _)
Chase(destination_path, fuel) ==
    IF ~is_symlink(destination_path)
    THEN [hang |-> FALSE, path |-> destination_path]
    ELSE IF fuel = 0 THEN [hang |-> TRUE, path |-> destination_path]
    ELSE Chase(read_link(destination_path), fuel - 1)

\* slip: the followed link keeps its content as symlink_path
FollowLink_KeepsTarget(symlink) ==
    LET ch == Chase(read_link(symlink), ChaseFuel)
        destination_path == join(parent(symlink), ch.path) IN
    [hang |-> ch.hang,
     info |-> FileInfo(symlink, destination_path,
                       IF is_dir(destination_path) THEN "DIRECTORY" ELSE "REGULAR",
                       Some(read_link(symlink)))]

FollowLink(symlink) ==
    LET ch == Chase(read_link(symlink), ChaseFuel)
        destination_path == join(parent(symlink), ch.path) IN
    [hang |-> ch.hang,
     info |-> FileInfo(symlink, destination_path,
                       IF is_dir(destination_path) THEN "DIRECTORY" ELSE "REGULAR",
                       None)]

FollowQueryFileinfo(p) ==
    IF is_symlink(p) THEN FollowLink(p)
    ELSE [hang |-> FALSE,
          info |-> FileInfo(p, p, IF is_dir(p) THEN "DIRECTORY" ELSE "REGULAR", None)]

FollowQueryNextBatch(p) ==
    LET q == FollowQueryFileinfo(p)
        abstract_path == q.info.content_path
        rd == read_dir(abstract_path) IN
    IF q.hang THEN [hang |-> TRUE, panic |-> FALSE, batch |-> <<>>]
    ELSE IF is_file(abstract_path) THEN [hang |-> FALSE, panic |-> FALSE, batch |-> <<>>]
    ELSE IF ~rd.ok \/ ~AllOk(rd.ents) THEN [hang |-> FALSE, panic |-> TRUE, batch |-> <<>>]
    ELSE [hang |-> FALSE, panic |-> FALSE, batch |-> Paths(rd.ents)]

FollowRoot(r) ==
    IF ~try_exists(r) THEN Early(TRUE, None) ELSE Early(FALSE, None)

FollowIter(p) ==
    LET q == FollowQueryFileinfo(p)
        nb == FollowQueryNextBatch(p) IN
    Iter(q.info, nb.batch, nb.panic, q.hang \/ nb.hang)

-----------------------------------------------------------------------------
(* Actions *)

TypeOK ==
    /\ policy \in Policies
    /\ root \in Roots
    /\ files.some \in BOOLEAN
    /\ pc \in {"idle", "loop", "done", "panic", "hang"}
    /\ Len(results) <= MaxEntries

InitWith(family, errs) ==
    /\ fs \in family
    /\ cwd \in {<<>>, <<"r">>}
    /\ ioerr \in errs
    /\ policy \in Policies
    /\ root \in NewRoots
    /\ files = None
    /\ queue = <<>>
    /\ results = <<>>
    /\ pc = "idle"
    /\ writer = <<>>
    /\ wlog = {}
    /\ wi = 1
    /\ wpc = "idle"

\* Filter::new on an undisturbed filesystem
Init == InitWith(FsFamily(MaxLinks), {{}})

\* Filter::new on a filesystem where reading one directory entry fails
InitIO ==
    InitWith(FsFamily(MaxLinks - 1),
             { {p} : p \in {<<"r", "a">>, <<"r", "s">>, <<"r", "s", "b">>} })

\* Filter::scan up to the loop of list_files (or its early return)
Begin(early) ==
    /\ pc \in {"idle", "done"}
    /\ wpc = "idle"
    /\ IF early.ret
       THEN /\ files' = early.val
            /\ pc' = "done"
            /\ UNCHANGED <<queue, results>>
       ELSE /\ queue' = <<root>>
            /\ results' = <<>>
            /\ pc' = "loop"
            /\ UNCHANGED files
    /\ UNCHANGED <<fs, cwd, ioerr, policy, root, wvars>>

\* slip: the queue is used as a stack (depth first)
Step_Stack(it) ==
    /\ pc = "loop"
    /\ queue # <<>>
    /\ Len(results) < MaxEntries
    /\ IF it.hang
       THEN /\ pc' = "hang"
            /\ UNCHANGED <<queue, results>>
       ELSE IF it.panic
       THEN /\ pc' = "panic"
            /\ queue' = <<>>
            /\ results' = <<>>
       ELSE /\ results' = Append(results, it.info)
            /\ queue' = it.next \o Tail(queue)
            /\ pc' = "loop"
    /\ UNCHANGED <<fs, cwd, ioerr, policy, root, files, wvars>>

\* one iteration of the while loop of list_files
Step(it) ==
    /\ pc = "loop"
    /\ queue # <<>>
    /\ Len(results) < MaxEntries
    /\ IF it.hang
       THEN /\ pc' = "hang"
            /\ UNCHANGED <<queue, results>>
       ELSE IF it.panic
       THEN /\ pc' = "panic"
            /\ queue' = <<>>
            /\ results' = <<>>
       ELSE /\ results' = Append(results, it.info)
            /\ queue' = Tail(queue) \o it.next
            /\ pc' = "loop"
    /\ UNCHANGED <<fs, cwd, ioerr, policy, root, files, wvars>>

BasicScan == policy = "Basic" /\ Begin(BasicRoot(root))
BasicStep == policy = "Basic" /\ queue # <<>> /\ Step(BasicIter(Head(queue)))

SymlinkScan == policy = "Preserving" /\ Begin(SymlinkRoot(root))
SymlinkStep == policy = "Preserving" /\ queue # <<>> /\ Step(SymlinkIter(Head(queue)))

FollowScan == policy = "Follow" /\ Begin(FollowRoot(root))
FollowStep == policy = "Follow" /\ queue # <<>> /\ Step(FollowIter(Head(queue)))

\* the loop ends: list_files returns Some(results), scan stores it
ScanReturn ==
    /\ pc = "loop"
    /\ queue = <<>>
    /\ files' = Some(results)
    /\ results' = <<>>
    /\ pc' = "done"
    /\ UNCHANGED <<fs, cwd, ioerr, policy, root, queue, wvars>>

\* slip: update rebinds the root and keeps the old manifest
UpdatedFiles_Kept == files

UpdatedFiles == None

\* Filter::update
Update(new_root) ==
    /\ pc \in {"idle", "done"}
    /\ wpc = "idle"
    /\ root' = new_root
    /\ files' = UpdatedFiles
    /\ pc' = "idle"
    /\ UNCHANGED <<fs, cwd, ioerr, policy, queue, results, wvars>>

(* Deflate / ZipDeflate (src/src/deflate.rs) *)

\* the name the container stores for a path (a leading "/" is dropped)
ZipName(p) == IF IsAbsolute(p) THEN Tail(p) ELSE p

InZip(w, name) == \E k \in 1..Len(w) : w[k].name = name

ZipEntry(name, kind, data, from) ==
    [name |-> name, kind |-> kind, data |-> data, from |-> from]

\* each write returns the container and ok = FALSE when the zip writer
\* answered Err, which ZipDeflate prints and otherwise ignores
WriteDir(w, dir) ==
    IF InZip(w, ZipName(dir)) THEN [ok |-> FALSE, w |-> w]
    ELSE [ok |-> TRUE, w |-> Append(w, ZipEntry(ZipName(dir), "dir", <<>>, None))]

WriteFile(w, file, content) ==
    IF InZip(w, ZipName(file)) THEN [ok |-> FALSE, w |-> w]
    ELSE [ok |-> TRUE, w |-> Append(w, ZipEntry(ZipName(file), "file", content, None))]

WriteSymlink(w, link, target) ==
    IF InZip(w, ZipName(link)) THEN [ok |-> FALSE, w |-> w]
    ELSE [ok |-> TRUE, w |-> Append(w, ZipEntry(ZipName(link), "symlink", target, None))]

CopyDir(w, src, dest) ==
    IF ~InZip(w, ZipName(src)) \/ InZip(w, ZipName(dest)) THEN [ok |-> FALSE, w |-> w]
    ELSE LET e == w[CHOOSE k \in 1..Len(w) : w[k].name = ZipName(src)] IN
         [ok |-> TRUE,
          w |-> Append(w, ZipEntry(ZipName(dest), e.kind, e.data, Some(ZipName(src))))]

\* fs::read_to_string(content_path): Err unless the path leads to a file
ReadToString(content_path) ==
    IF is_file(content_path) THEN Some(Stat(content_path)) ELSE None

\* the closure of write_archive applied to the entry f, number i
WriteOne(w, f, i) ==
    IF f.symlink_path.some
    THEN LET r == WriteSymlink(w, f.path, f.symlink_path.v) IN
         [panic |-> FALSE, w |-> r.w,
          log |-> IF r.ok THEN {} ELSE {<<i, "write_symlink">>}]
    ELSE IF f.file_type = "DIRECTORY"
    THEN LET c == IF f.path # f.content_path
                  THEN CopyDir(w, f.content_path, f.path)
                  ELSE [ok |-> TRUE, w |-> w]
             d == WriteDir(c.w, f.content_path) IN
         [panic |-> FALSE, w |-> d.w,
          log |-> (IF c.ok THEN {} ELSE {<<i, "copy_dir">>})
                  \cup (IF d.ok THEN {} ELSE {<<i, "write_dir">>})]
    ELSE IF f.file_type = "REGULAR"
    THEN LET content == ReadToString(f.content_path)
             r == WriteFile(w, f.path, content.v) IN
         IF ~content.some THEN [panic |-> TRUE, w |-> w, log |-> {}]
         ELSE [panic |-> FALSE, w |-> r.w,
               log |-> IF r.ok THEN {} ELSE {<<i, "write_file">>}]
    ELSE [panic |-> TRUE, w |-> w, log |-> {}]

\* write_archive(filter.files()): one entry of the manifest
WriteArchive ==
    /\ pc = "done"
    /\ files.some
    /\ wpc \in {"idle", "writing"}
    /\ wi <= Len(files.v)
    /\ LET r == WriteOne(writer, files.v[wi], wi) IN
       IF r.panic
       THEN /\ wpc' = "panic"
            /\ UNCHANGED <<writer, wlog, wi>>
       ELSE /\ writer' = r.w
            /\ wlog' = wlog \cup r.log
            /\ wi' = wi + 1
            /\ wpc' = "writing"
    /\ UNCHANGED <<fs, cwd, ioerr, policy, root, files, queue, results, pc>>

\* write_archive has returned; ZipDeflate::finish
Finish ==
    /\ wpc = "writing"
    /\ wi > Len(files.v)
    /\ wpc' = "finished"
    /\ UNCHANGED <<fs, cwd, ioerr, policy, root, files, queue, results, pc,
                   writer, wlog, wi>>

Next ==
    \/ BasicScan
    \/ BasicStep
    \/ SymlinkScan
    \/ SymlinkStep
    \/ FollowScan
    \/ FollowStep
    \/ ScanReturn
    \/ \E new_root \in Roots : Update(new_root)
    \/ WriteArchive
    \/ Finish

Spec == Init /\ [][Next]_vars

SpecIO == InitIO /\ [][Next]_vars

-----------------------------------------------------------------------------
(* A whole scan as a function of the root: what list_files returns when   *)
(* run from scratch (Some/None), or that it fails.                        *)

IterOf(pol, p) ==
    CASE pol = "Basic"      -> BasicIter(p)
      [] pol = "Preserving" -> SymlinkIter(p)
      [] pol = "Follow"     -> FollowIter(p)

RootOf(pol, r) ==
    CASE pol = "Basic"      -> BasicRoot(r)
      [] pol = "Preserving" -> SymlinkRoot(r)
      [] pol = "Follow"     -> FollowRoot(r)

RECURSIVE Loop(_, _, _)
Loop(pol, q, res) ==
    IF q = <<>> THEN [end |-> "done", val |-> Some(res)]
    ELSE IF Len(res) >= MaxEntries THEN [end |-> "loop", val |-> None]
    ELSE LET it == IterOf(pol, Head(q)) IN
         IF it.hang THEN [end |-> "hang", val |-> None]
         ELSE IF it.panic THEN [end |-> "panic", val |-> None]
         ELSE Loop(pol, Tail(q) \o it.next, Append(res, it.info))

ListFiles(pol, r) ==
    LET early == RootOf(pol, r) IN
    IF early.ret THEN [end |-> "done", val |-> early.val]
    ELSE Loop(pol, <<r>>, <<>>)

-----------------------------------------------------------------------------
(* Claims *)

Done == pc = "done"
HasManifest == pc = "done" /\ files.some
Entries == 1..Len(files.v)

\* the root path names no filesystem node at all
RootMissing == Lstat(root) = NoNode

\* C1: for every policy, a scan of a root path that does not exist does
\* not fail and leaves the manifest absent (None), which is not the empty
\* sequence Some(<<>>); no entry is produced.
C1_MissingRootAbsent ==
    RootMissing =>
        /\ pc \in {"idle", "done"}
        /\ files = None
        /\ files # Some(<<>>)
        /\ results = <<>>

C1_Witness ==
    /\ RootMissing
    /\ pc = "done"
    /\ policy = "Basic"
    /\ files = None

\* C2: update resets the manifest to None, it stays None until the next
\* scan, and a completed scan's manifest is the one a fresh scan of the
\* current root produces, whatever was scanned before.
C2_UpdateResets ==
    /\ pc = "idle" => files = None
    /\ pc = "done" =>
          /\ ListFiles(policy, root).end = "done"
          /\ files = ListFiles(policy, root).val

\* a second root has been scanned to a manifest after an earlier scan
C2_Witness ==
    /\ HasManifest
    /\ root \notin NewRoots
    /\ Len(files.v) >= 3

\* the nodes of the tree below a path: those reached through directories
\* only, a symlink being a node of its own with nothing below it
\* every name sequence that leads from a directory to a node below it
Suffixes == { SubSeq(p, k, Len(p)) : p \in NodePaths, k \in 1..(Len(DirOrder) + 1) }

IsRealDir(p) == Lstat(p) # NoNode /\ fs[Lstat(p)].kind = "dir"

TreeNodes(r) ==
    { r \o sfx : sfx \in
        { x \in Suffixes :
            /\ Lstat(r \o x) # NoNode
            /\ \A k \in 0..(Len(x) - 1) : IsRealDir(r \o SubSeq(x, 1, k)) } }

SymlinkNodes(r) == { p \in TreeNodes(r) : is_symlink(p) }

PathsOf(v) == { v[i].path : i \in 1..Len(v) }
WithTarget(v) == { i \in 1..Len(v) : v[i].symlink_path.some }

\* C3: a Preserving scan of an existing root that is no symlink lists each
\* node of the tree exactly once, nothing below a symlink, and as many
\* entries carry a link target as there are symlink nodes.
C3_PreservingOnePerNode ==
    (policy = "Preserving" /\ Done /\ ~RootMissing /\ ~is_symlink(root)) =>
        /\ files.some
        /\ PathsOf(files.v) = TreeNodes(root)
        /\ Len(files.v) = Cardinality(TreeNodes(root))
        /\ \A i \in Entries : \A j \in Entries :
              is_symlink(files.v[i].path) =>
                  ~( /\ Len(files.v[j].path) > Len(files.v[i].path)
                     /\ SubSeq(files.v[j].path, 1, Len(files.v[i].path)) = files.v[i].path )
        /\ Cardinality(WithTarget(files.v)) = Cardinality(SymlinkNodes(root))

\* a tree with a directory holding a file, and a symlink to a directory
C3_Witness ==
    /\ policy = "Preserving"
    /\ HasManifest
    /\ ~is_symlink(root)
    /\ Len(files.v) >= 4
    /\ \E i \in Entries :
          /\ files.v[i].symlink_path.some
          /\ is_dir(files.v[i].path)

\* C4: a Basic scan of a tree of N nodes yields exactly N entries, each
\* Regular or Directory without a link target.
C4_BasicCountsNodes ==
    (policy = "Basic" /\ HasManifest) =>
        /\ Len(files.v) = Cardinality(TreeNodes(root))
        /\ \A i \in Entries :
              /\ files.v[i].file_type \in {"REGULAR", "DIRECTORY"}
              /\ ~files.v[i].symlink_path.some

\* C5: under Follow every entry, of the manifest and of the scan under
\* way, is Regular or Directory and has no link target.
C5_FollowNoSymlinkEntries ==
    policy = "Follow" =>
        /\ \A i \in 1..Len(results) :
              /\ results[i].file_type \in {"REGULAR", "DIRECTORY"}
              /\ ~results[i].symlink_path.some
        /\ files.some => \A i \in Entries :
              /\ files.v[i].file_type \in {"REGULAR", "DIRECTORY"}
              /\ ~files.v[i].symlink_path.some

\* a Follow manifest with an entry for a symlink node
C5_Witness ==
    /\ policy = "Follow"
    /\ HasManifest
    /\ \E i \in Entries : is_symlink(files.v[i].path)

\* the scenario root{a.txt, sub/{b.txt}, link -> sub}, scanned as "r"
ScenarioFs == MkFs(File, Dir, File, Link(<<"s">>), Absent, Absent)
InScenario == fs = ScenarioFs /\ cwd = <<>> /\ root = <<"r">>

\* C6: under Follow the children found through a symlink L to a directory
\* D are listed with logical path L/child and content source D/child; the
\* scenario yields 5 entries, among them link (Directory, content source
\* sub) and link/b.txt (content source sub/b.txt).
C6_FollowChildrenUnderLink ==
    (policy = "Follow" /\ HasManifest) =>
        /\ \A i \in Entries :
              (is_symlink(files.v[i].path) /\ files.v[i].file_type = "DIRECTORY") =>
                  \A k \in 1..Len(ChildNames(Stat(files.v[i].content_path))) :
                      LET nm == ChildNames(Stat(files.v[i].content_path))[k] IN
                      \E j \in Entries :
                          /\ files.v[j].path = Append(files.v[i].path, nm)
                          /\ files.v[j].content_path = Append(files.v[i].content_path, nm)
        /\ InScenario =>
              /\ Len(files.v) = Cardinality(TreeNodes(root)) + 1
              /\ \E i \in Entries :
                    files.v[i] = FileInfo(<<"r", "l">>, <<"r", "s">>, "DIRECTORY", None)
              /\ \E i \in Entries :
                    files.v[i] = FileInfo(<<"r", "l", "b">>, <<"r", "s", "b">>, "REGULAR", None)

\* C7: no two entries of a manifest have the same logical path.
C7_LogicalPathUnique ==
    HasManifest =>
        \A i \in Entries : \A j \in Entries :
            files.v[i].path = files.v[j].path => i = j

\* C8 as stated: link_target is present iff kind = Symlink.
C8_TargetIffKindSymlink ==
    HasManifest =>
        \A i \in Entries :
            files.v[i].symlink_path.some <=> files.v[i].file_type = "SYMLINK"

\* C8 amended: an entry has a link target iff it is the entry of a symlink
\* node under the Preserving policy; every entry of kind Symlink or Broken
\* has one, and it is the node's one-hop content.
C8_TargetIffPreservedSymlink ==
    HasManifest =>
        \A i \in Entries :
            /\ files.v[i].symlink_path.some <=>
                  (policy = "Preserving" /\ is_symlink(files.v[i].path))
            /\ files.v[i].file_type \in {"SYMLINK", "NONE"} =>
                  files.v[i].symlink_path.some
            /\ files.v[i].symlink_path.some =>
                  files.v[i].symlink_path.v = read_link(files.v[i].path)

\* a symlink to a regular file listed with its target and kind Regular
C8_Witness ==
    /\ policy = "Preserving"
    /\ HasManifest
    /\ \E i \in Entries :
          /\ files.v[i].symlink_path.some
          /\ files.v[i].file_type = "REGULAR"

\* C9: the content source of every Directory or Regular entry exists.
C9_ContentSourceExists ==
    HasManifest =>
        \A i \in Entries :
            files.v[i].file_type \in {"REGULAR", "DIRECTORY"} =>
                try_exists(files.v[i].content_path)

\* C10: with a symlink root, Basic and Preserving do not traverse: the
\* manifest is the single entry of the root, Regular without target under
\* Basic, the classified symlink with its one-hop target under Preserving.
C10_SymlinkRootSingleEntry ==
    (is_symlink(root) /\ policy \in {"Basic", "Preserving"}) =>
        /\ pc \in {"idle", "done"}
        /\ results = <<>>
        /\ Done =>
              /\ files.some
              /\ Len(files.v) = Cardinality({root})
              /\ files.v[1].path = root
              /\ files.v[1].content_path = root
              /\ policy = "Basic" =>
                    /\ files.v[1].file_type = "REGULAR"
                    /\ ~files.v[1].symlink_path.some
              /\ policy = "Preserving" =>
                    /\ files.v[1].symlink_path = Some(read_link(root))
                    /\ files.v[1] = SymlinkQueryFileinfo(root)

\* a Basic scan of a symlink root that points to a non-empty directory
C10_Witness ==
    /\ is_symlink(root)
    /\ policy = "Basic"
    /\ Done
    /\ is_dir(root)
    /\ ChildNames(Stat(root)) # <<>>

\* the absolute path of the node a path resolves to
ResolvedPath(p) == <<"/">> \o Stat(p)

\* C11: Follow does not short-circuit a symlink root: for a root that is a
\* symlink to an existing directory D the scan ends as a Follow scan of D
\* ends, its first entry is (root, D, Directory), and it has as many entries
\* as the scan of D; a symlink root whose target is missing gives None.
C11_FollowSymlinkRoot ==
    (policy = "Follow" /\ is_symlink(root)) =>
        /\ (is_dir(root) /\ pc \in {"done", "panic", "hang"}) =>
              /\ pc = ListFiles("Follow", ResolvedPath(root)).end
              /\ Done =>
                    /\ files.some
                    /\ files.v[1].path = root
                    /\ files.v[1].file_type = "DIRECTORY"
                    /\ ~is_symlink(files.v[1].content_path)
                    /\ Stat(files.v[1].content_path) = Stat(root)
                    /\ Len(files.v) = Len(ListFiles("Follow", ResolvedPath(root)).val.v)
        /\ ~try_exists(root) =>
              /\ pc \in {"idle", "done"}
              /\ Done => files = None

\* C12: write_archive never aborts the archive because of one entry: an
\* entry that cannot be written or read is reported and skipped.
C12_WriteArchiveNeverAborts ==
    /\ wpc # "panic"
    /\ wpc = "finished" => wi > Len(files.v)

\* C13: once write_archive has handled the manifest, every Directory entry
\* without link target has a directory marker at its logical path, and
\* where the logical path differs from the content source that marker is a
\* copy of the container entry of the content source.
C13_DirectoryMarkerAtLogicalPath ==
    wpc = "finished" =>
        \A i \in Entries :
            (files.v[i].file_type = "DIRECTORY" /\ ~files.v[i].symlink_path.some) =>
                \E k \in 1..Len(writer) :
                    /\ writer[k].name = ZipName(files.v[i].path)
                    /\ writer[k].kind = "dir"
                    /\ files.v[i].path # files.v[i].content_path =>
                          writer[k].from = Some(ZipName(files.v[i].content_path))

\* p lies strictly below q
Below(p, q) == Len(p) > Len(q) /\ SubSeq(p, 1, Len(q)) = q

\* C14: under Basic a symlink node is a leaf: the scan of an existing root
\* completes, lists the symlink once with its own path as logical path and
\* content source, and lists nothing through it.
C14_BasicSymlinkIsLeaf ==
    (policy = "Basic" /\ ~RootMissing) =>
        /\ pc # "panic"
        /\ HasManifest =>
              /\ \A p \in SymlinkNodes(root) :
                    Cardinality({ i \in Entries :
                        files.v[i].path = p /\ files.v[i].content_path = p }) = 1
              /\ \A i \in Entries : \A j \in Entries :
                    is_symlink(files.v[i].path) => ~Below(files.v[j].path, files.v[i].path)

\* the one-hop target of a symlink, as the filesystem reads it: a relative
\* content is taken from the directory that holds the link
OneHopTarget(p) == join(parent(p), read_link(p))

KindOfTarget(t) ==
    IF ~try_exists(t) THEN "NONE"
    ELSE IF is_symlink(t) THEN "SYMLINK"
    ELSE IF is_dir(t) THEN "DIRECTORY"
    ELSE "REGULAR"

\* C15: under Preserving the kind of a symlink's entry is that of its
\* one-hop target (Broken if it does not exist, Symlink if it is a symlink,
\* else Regular or Directory), the target being looked up next to the link
\* wherever the scan was started from.
C15_PreservingKindFromTarget ==
    (policy = "Preserving" /\ HasManifest) =>
        \A i \in Entries :
            is_symlink(files.v[i].path) =>
                files.v[i].file_type = KindOfTarget(OneHopTarget(files.v[i].path))

\* C16: under Follow the entry of a symlink whose chain ends at an existing
\* node X that is no symlink keeps the symlink's path as logical path, has
\* the path of X as content source and X's kind.
C16_FollowResolvesChain ==
    (policy = "Follow" /\ HasManifest) =>
        \A i \in Entries :
            (is_symlink(files.v[i].path) /\ try_exists(files.v[i].path)) =>
                /\ ~is_symlink(files.v[i].content_path)
                /\ Stat(files.v[i].content_path) = Stat(files.v[i].path)
                /\ files.v[i].file_type =
                      (IF is_dir(files.v[i].path) THEN "DIRECTORY" ELSE "REGULAR")

\* C17: no scan runs forever; the loop of follow_link that never reaches a
\* path that is no symlink is the state "hang".
C17_ScanTerminates ==
    pc # "hang"

\* the nodes the failed directory entries hide: the entries themselves
\* and everything below them
Hidden(r) == { p \in TreeNodes(r) : \E e \in ioerr :
                  Lstat(p) # NoNode /\ (Lstat(p) = e \/ Below(Lstat(p), e)) }

\* C18: when reading a child fails during a listing, the child is left
\* out and the scan completes with every other entry (stated for trees
\* without symlinks, where nothing else can fail).
C18_ChildFailureOmitted ==
    (ioerr # {} /\ NumLinks(fs) = 0 /\ ~RootMissing) =>
        /\ pc # "panic"
        /\ Done =>
              /\ files.some
              /\ PathsOf(files.v) = TreeNodes(root) \ Hidden(root)

\* the symlinks of the tree below the root, the root excepted, whose
\* one-hop target names no node
BrokenLinks(r) ==
    { p \in TreeNodes(r) : p # r /\ is_symlink(p) /\ Lstat(OneHopTarget(p)) = NoNode }

\* C19: a Follow scan of an existing root whose tree holds a symlink that
\* does not resolve never completes with a manifest.
C19_FollowBrokenLinkFails ==
    (policy = "Follow" /\ BrokenLinks(root) # {}) => pc # "done"

\* the entry from whose listing entry j was enqueued, and the distance of
\* an entry from the root
Lister(v, j) ==
    IF \E i \in 1..(j - 1) : v[i].content_path = parent(v[j].path)
    THEN CHOOSE i \in 1..(j - 1) :
            /\ v[i].content_path = parent(v[j].path)
            /\ \A k \in 1..(i - 1) : v[k].content_path # parent(v[j].path)
    ELSE 0

RECURSIVE Level(_, _)
Level(v, j) ==
    IF j <= 1 \/ Lister(v, j) = 0 THEN 0 ELSE Level(v, Lister(v, j)) + 1

\* C20: a manifest is in breadth-first order: the root entry first, every
\* other entry after the entry of the directory whose listing produced it,
\* distances from the root never decreasing, and it is the sequence any
\* scan of this root produces.
C20_BreadthFirstOrder ==
    HasManifest =>
        /\ files.v[1].path = root
        /\ \A j \in 2..Len(files.v) :
              /\ Lister(files.v, j) # 0
              /\ files.v[Lister(files.v, j)].file_type = "DIRECTORY"
              /\ Level(files.v, j - 1) <= Level(files.v, j)
        /\ files.v = ListFiles(policy, root).val.v

\* a manifest where a directory's child comes after a later sibling
C20_Witness ==
    /\ HasManifest
    /\ \E i \in Entries : \E j \in Entries :
          /\ Lister(files.v, j) < i
          /\ i < j
          /\ Level(files.v, i) = 1
          /\ Level(files.v, j) = 2

\* the entry write_archive handles next is a Directory whose logical path
\* differs from its content source: copy_dir is issued for it
CopyIssued ==
    /\ pc = "done"
    /\ files.some
    /\ wi <= Len(files.v)
    /\ ~files.v[wi].symlink_path.some
    /\ files.v[wi].file_type = "DIRECTORY"
    /\ files.v[wi].path # files.v[wi].content_path

\* C21: whenever write_archive issues copy_dir(content_source, logical_path)
\* for an entry of a Follow manifest, an earlier entry of the manifest has
\* already put an entry for content_source into the container.
C21_CopySourceAlreadyWritten ==
    [][(policy = "Follow" /\ CopyIssued /\ wi' = wi + 1) =>
          InZip(writer, ZipName(files.v[wi].content_path))]_vars

====
